---- MODULE Spec2Model ----
(***************************************************************************)
(* H.264 RTP payloader, depacketizer and partition-head checker of         *)
(* crates/rtp/src/codecs/h264/mod.rs.                                      *)
(*                                                                         *)
(* Bytes are the integers 0..255.  A byte buffer (Bytes, BytesMut) is a    *)
(* sequence of bytes.  Rust indices are 0-based: buffer[i] is written      *)
(* At(buffer, i) and buffer[a..b] is written Slice(buffer, a, b).          *)
(***************************************************************************)
EXTENDS Integers, Sequences, FiniteSets, TLC

VARIABLES
    mtu,         \* argument of H264Payloader::payload
    input,       \* argument of H264Payloader::payload (the elementary stream)
    pc,          \* "ready": payload not called yet; "done": it has returned
    pres,        \* how payload ended: "None" before the call, then "Ok" (it
                 \* returned Ok), "Panic" (a slice out of range) or "Diverges"
    payloads,    \* the transport payloads sent: the Vec<Bytes> payload returned,
                 \* or the payloads of another sender
    rx,          \* transport payloads in flight to the depacketizer, in order
    is_avc,      \* H264Packet.is_avc
    payload,     \* H264Packet.payload
    fua_buffer,  \* H264Packet.fua_buffer: <<>> is None, <<b>> is Some(b)
    packet,      \* argument of the last depacketize call
    res,         \* what the last depacketize call returned
    probe        \* the last direct call of next_ind or is_partition_head: [fn, arg, ret]

vars == <<mtu, input, pc, pres, payloads, rx, is_avc, payload, fua_buffer, packet, res, probe>>

payloaderVars == <<mtu, input, pc, pres, payloads>>
depacketizerVars == <<is_avc, payload, fua_buffer, packet, res>>

(***************************************************************************)
(* Bounds of the model.                                                    *)
(***************************************************************************)
MaxLen == 6      \* longest elementary stream handed to payload
MaxMtu == 5      \* largest mtu handed to payload
MaxPkt == 4      \* longest transport payload of the packet families
MaxStap == 7     \* longest STAP-A body (bytes after the indicator)
MaxAcc == 4      \* most bytes the stream environment lets the accumulator hold
MaxNal == 5      \* longest unit of a framed stream
MaxScript == 4   \* most payloads of a scripted sender

(***************************************************************************)
(* Constants of the source.                                                *)
(***************************************************************************)
STAPA_NALU_TYPE == 24
FUA_NALU_TYPE == 28
FUB_NALU_TYPE == 29

FUA_HEADER_SIZE == 2
STAPA_HEADER_SIZE == 1
STAPA_NALU_LENGTH_SIZE == 2

NALU_TYPE_BITMASK == 31
NALU_REF_IDC_BITMASK == 96
FU_START_BITMASK == 128
FU_END_BITMASK == 64

ANNEXB_NALUSTART_CODE == <<0, 0, 0, 1>>

(***************************************************************************)
(* Byte and buffer primitives.                                             *)
(***************************************************************************)
RECURSIVE BitAnd(_, _)
BitAnd(a, b) ==
    IF a = 0 \/ b = 0 THEN 0
    ELSE (a % 2) * (b % 2) + 2 * BitAnd(a \div 2, b \div 2)

RECURSIVE BitOr(_, _)
BitOr(a, b) ==
    IF a = 0 THEN b
    ELSE IF b = 0 THEN a
    ELSE (IF a % 2 = 1 \/ b % 2 = 1 THEN 1 ELSE 0) + 2 * BitOr(a \div 2, b \div 2)

Min(a, b) == IF a <= b THEN a ELSE b

At(buffer, i) == buffer[i + 1]

Slice(buffer, from, to) == SubSeq(buffer, from + 1, to)

\* BufMut::put_u32: the low four bytes of n (the cast to u32), big-endian
PutU32(n) ==
    <<(n \div 16777216) % 256, (n \div 65536) % 256, (n \div 256) % 256, n % 256>>

RECURSIVE SeqsUpTo(_, _)
SeqsUpTo(S, n) ==
    IF n = 0 THEN {<<>>}
    ELSE LET shorter == SeqsUpTo(S, n - 1)
         IN  shorter \cup {Append(s, x) : s \in {t \in shorter : Len(t) = n - 1}, x \in S}

(***************************************************************************)
(* next_ind: the next Annex-B start code at or after start.                *)
(***************************************************************************)
StartCodeAt_ThreeBytes(start, i, zero_count) == <<start + i - 2, 3>>

\* the start code that ends at nalu[start + i], after zero_count zeros
StartCodeAt(start, i, zero_count) == <<start + i - zero_count, zero_count + 1>>

RECURSIVE NextIndScan(_, _, _, _)
NextIndScan(nalu, start, i, zero_count) ==
    IF start + i >= Len(nalu) THEN <<-1, -1>>
    ELSE LET b == At(nalu, start + i)
         IN  IF b = 0 THEN NextIndScan(nalu, start, i + 1, zero_count + 1)
             ELSE IF b = 1 /\ zero_count >= 2
                  THEN StartCodeAt(start, i, zero_count)
                  ELSE NextIndScan(nalu, start, i + 1, 0)

next_ind(nalu, start) == NextIndScan(nalu, start, 0, 0)

(***************************************************************************)
(* emit: the fragments of one NAL unit, appended to payloads.              *)
(***************************************************************************)
MaxFragmentSize_NoHeader(m) == m - 1

MaxFragmentSize(m) == m - FUA_HEADER_SIZE

FuIndicator_NoRefIdc(nalu_ref_idc) == FUA_NALU_TYPE

FuIndicator(nalu_ref_idc) == BitOr(FUA_NALU_TYPE, nalu_ref_idc)

FuHeader_EndOnLastByte(nalu_type, nalu_data_remaining, nalu_data_length, current_fragment_size) ==
    IF nalu_data_remaining = nalu_data_length
    THEN BitOr(nalu_type, 128)
    ELSE IF nalu_data_remaining - 1 = 0
         THEN BitOr(nalu_type, 64)
         ELSE nalu_type

FuHeader(nalu_type, nalu_data_remaining, nalu_data_length, current_fragment_size) ==
    IF nalu_data_remaining = nalu_data_length
    THEN BitOr(nalu_type, 128)
    ELSE IF nalu_data_remaining - current_fragment_size = 0
         THEN BitOr(nalu_type, 64)
         ELSE nalu_type

\* how a run of emit or of the payload loop ended, and the fragments so far
EmitResult(kind, out) == [kind |-> kind, out |-> out]

\* buffer[from..to] does not panic
SliceInRange(buffer, from, to) == from <= to /\ to <= Len(buffer)

RECURSIVE EmitFua(_, _, _, _, _, _)
EmitFua(nalu, max_fragment_size, nalu_data_length, nalu_data_index, nalu_data_remaining, out) ==
    IF ~(nalu_data_remaining > 0) THEN EmitResult("Ok", out)
    ELSE LET current_fragment_size == Min(max_fragment_size, nalu_data_remaining)
             nalu_type == BitAnd(At(nalu, 0), NALU_TYPE_BITMASK)
             nalu_ref_idc == BitAnd(At(nalu, 0), NALU_REF_IDC_BITMASK)
             b0 == FuIndicator(nalu_ref_idc)
             b1 == FuHeader(nalu_type, nalu_data_remaining, nalu_data_length,
                            current_fragment_size)
             frag == <<b0, b1>>
                     \o Slice(nalu, nalu_data_index,
                              nalu_data_index + current_fragment_size)
         IN  IF ~SliceInRange(nalu, nalu_data_index,
                              nalu_data_index + current_fragment_size)
             THEN EmitResult("Panic", out)
             ELSE IF current_fragment_size = 0
             THEN EmitResult("Diverges", out)  \* nalu_data_remaining stays above 0
             ELSE EmitFua(nalu, max_fragment_size, nalu_data_length,
                          nalu_data_index + current_fragment_size,
                          nalu_data_remaining - current_fragment_size,
                          Append(out, frag))

IsDroppedType_AudOnly(nalu_type) == nalu_type = 9

IsDroppedType(nalu_type) == nalu_type = 9 \/ nalu_type = 12

FitsSingleNalu_Strict(nalu, m) == Len(nalu) < m

FitsSingleNalu(nalu, m) == Len(nalu) <= m

CannotFragment_Negative(max_fragment_size, nalu_data_remaining) ==
    Min(max_fragment_size, nalu_data_remaining) < 0

CannotFragment(max_fragment_size, nalu_data_remaining) ==
    Min(max_fragment_size, nalu_data_remaining) <= 0

emit(nalu, m, out) ==
    IF Len(nalu) = 0 THEN EmitResult("Ok", out)
    ELSE LET nalu_type == BitAnd(At(nalu, 0), NALU_TYPE_BITMASK)
         IN  IF IsDroppedType(nalu_type) THEN EmitResult("Ok", out)
             ELSE IF FitsSingleNalu(nalu, m) THEN EmitResult("Ok", Append(out, nalu))
             ELSE LET max_fragment_size == MaxFragmentSize(m)
                      nalu_data_length == Len(nalu) - 1
                  IN  IF CannotFragment(max_fragment_size, nalu_data_length)
                      THEN EmitResult("Ok", out)
                      ELSE EmitFua(nalu, max_fragment_size, nalu_data_length, 1,
                                   nalu_data_length, out)

(***************************************************************************)
(* H264Payloader::payload.  The result is [kind, payloads]; the code has   *)
(* no path that returns Err.  kind is "Ok", or "Panic" when a slice is out *)
(* of range, or "Diverges" when the FU-A loop cannot end.                  *)
(***************************************************************************)
\* the end of the span that starts at prev_start: the next start code, or
\* the end of the stream
SpanEnd_PastCode(buffer, nxt) == IF nxt[1] # -1 THEN nxt[1] + nxt[2] ELSE Len(buffer)

SpanEnd(buffer, nxt) == IF nxt[1] # -1 THEN nxt[1] ELSE Len(buffer)

RECURSIVE PayloadLoop(_, _, _, _, _)
PayloadLoop(buffer, m, next_ind_start, next_ind_len, out) ==
    IF next_ind_start = -1 THEN EmitResult("Ok", out)
    ELSE LET prev_start == next_ind_start + next_ind_len
         IN  IF prev_start > Len(buffer)
             THEN EmitResult("Panic", out)  \* nalu[start..] in next_ind
             ELSE LET nxt == next_ind(buffer, prev_start)
                      to == SpanEnd(buffer, nxt)
                  IN  IF ~SliceInRange(buffer, prev_start, to)
                      THEN EmitResult("Panic", out)
                      ELSE LET e == emit(Slice(buffer, prev_start, to), m, out)
                           IN  IF e.kind # "Ok" THEN e
                               ELSE PayloadLoop(buffer, m, nxt[1], nxt[2], e.out)

PayloadEarlyReturn_Err(m, buffer) == [kind |-> "Err", payloads |-> <<>>]

PayloadEarlyReturn(m, buffer) == [kind |-> "Ok", payloads |-> <<>>]

Payload(m, buffer) ==
    IF Len(buffer) = 0 \/ m = 0 THEN PayloadEarlyReturn(m, buffer)
    ELSE LET first == next_ind(buffer, 0)
             r == IF first[1] = -1
                  THEN emit(buffer, m, <<>>)
                  ELSE PayloadLoop(buffer, m, first[1], first[2], <<>>)
         IN  [kind |-> r.kind, payloads |-> r.out]

(***************************************************************************)
(* H264Packet::depacketize.  self is [is_avc, payload, fua_buffer]; the    *)
(* result is [res, self], res being [kind, a, b]:                          *)
(*   Ok, ErrShortPacket, StapASizeLargerThanBuffer(a, b),                  *)
(*   NaluTypeIsNotHandled(a), or Panic (an index out of range).            *)
(***************************************************************************)
Result(kind, a, b) == [kind |-> kind, a |-> a, b |-> b]

OkResult == Result("Ok", 0, 0)
ErrShortPacket == Result("ErrShortPacket", 0, 0)
StapASizeLargerThanBuffer(a, b) == Result("StapASizeLargerThanBuffer", a, b)
NaluTypeIsNotHandled(t) == Result("NaluTypeIsNotHandled", t, 0)
Panic == Result("Panic", 0, 0)
NoCall == Result("None", 0, 0)

\* the 4-byte prefix of a reconstructed NAL unit of n bytes
NalPrefix(avc, n) == IF avc THEN PutU32(n) ELSE ANNEXB_NALUSTART_CODE

IsTooShort(pkt) == Len(pkt) <= 2

StapANaluSize_LittleEndian(pkt, curr_offset) ==
    At(pkt, curr_offset) + At(pkt, curr_offset + 1) * 256

StapANaluSize(pkt, curr_offset) ==
    At(pkt, curr_offset) * 256 + At(pkt, curr_offset + 1)

StapATooLarge_BeforeAdvance(pkt, curr_offset, nalu_size) ==
    StapASizeLargerThanBuffer(nalu_size,
                              Len(pkt) - (curr_offset - STAPA_NALU_LENGTH_SIZE))

\* curr_offset is the offset after the 2-byte length field
StapATooLarge(pkt, curr_offset, nalu_size) ==
    StapASizeLargerThanBuffer(nalu_size, Len(pkt) - curr_offset)

RECURSIVE StapALoop(_, _, _, _)
StapALoop(pkt, avc, curr_offset, out) ==
    IF ~(curr_offset < Len(pkt)) THEN [res |-> OkResult, payload |-> out]
    ELSE IF curr_offset + 1 >= Len(pkt)
         THEN [res |-> Panic, payload |-> out]  \* packet[curr_offset + 1]
         ELSE LET nalu_size == StapANaluSize(pkt, curr_offset)
                  off == curr_offset + STAPA_NALU_LENGTH_SIZE
              IN  IF Len(pkt) < off + nalu_size
                  THEN [res |-> StapATooLarge(pkt, off, nalu_size), payload |-> out]
                  ELSE StapALoop(pkt, avc, off + nalu_size,
                                 out \o NalPrefix(avc, nalu_size)
                                     \o Slice(pkt, off, off + nalu_size))

FuaAppend_RestartOnStart(fua, pkt) ==
    LET old == IF fua = <<>> \/ BitAnd(At(pkt, 1), FU_START_BITMASK) # 0 THEN <<>> ELSE fua[1]
    IN  <<old \o Slice(pkt, FUA_HEADER_SIZE, Len(pkt))>>

\* the accumulator after the bytes of an FU-A packet are appended
FuaAppend(fua, pkt) ==
    LET old == IF fua = <<>> THEN <<>> ELSE fua[1]
    IN  <<old \o Slice(pkt, FUA_HEADER_SIZE, Len(pkt))>>

FuaHasEnd(b1) == BitAnd(b1, FU_END_BITMASK) # 0

FuaNaluHeader_FromIndicator(b0, b1) ==
    BitOr(BitAnd(b0, NALU_REF_IDC_BITMASK), BitAnd(b0, NALU_TYPE_BITMASK))

FuaNaluHeader(b0, b1) ==
    BitOr(BitAnd(b0, NALU_REF_IDC_BITMASK), BitAnd(b1, NALU_TYPE_BITMASK))

FuaAfterEnd_Kept(fua) == fua

\* the accumulator left behind by a call that saw the End bit: take()
FuaAfterEnd(fua) == <<>>

FuaNaluLength_DataOnly(fua) == Len(fua)

\* the length written before a reassembled unit: the header byte counts
FuaNaluLength(fua) == Len(fua) + 1

DepacketizeFua(self, pkt) ==
    IF Len(pkt) < FUA_HEADER_SIZE THEN [res |-> ErrShortPacket, self |-> self]
    ELSE LET appended == FuaAppend(self.fua_buffer, pkt)
             b0 == At(pkt, 0)
             b1 == At(pkt, 1)
         IN  IF FuaHasEnd(b1)
             THEN [res |-> OkResult,
                   self |-> [is_avc |-> self.is_avc,
                             payload |-> NalPrefix(self.is_avc, FuaNaluLength(appended[1]))
                                         \o <<FuaNaluHeader(b0, b1)>>
                                         \o appended[1],
                             fua_buffer |-> FuaAfterEnd(appended)]]
             ELSE [res |-> OkResult,
                   self |-> [is_avc |-> self.is_avc,
                             payload |-> <<>>,
                             fua_buffer |-> appended]]

NaluArm_FubAsFua(nalu_type) ==
    IF nalu_type >= 1 /\ nalu_type <= 23 THEN "single"
    ELSE IF nalu_type = STAPA_NALU_TYPE THEN "stapa"
    ELSE IF nalu_type = FUA_NALU_TYPE \/ nalu_type = FUB_NALU_TYPE THEN "fua"
    ELSE "other"

\* the arm of the match on nalu_type
NaluArm(nalu_type) ==
    IF nalu_type >= 1 /\ nalu_type <= 23 THEN "single"
    ELSE IF nalu_type = STAPA_NALU_TYPE THEN "stapa"
    ELSE IF nalu_type = FUA_NALU_TYPE THEN "fua"
    ELSE "other"

StapAFailed_PartialOutput(self, partial) == [self EXCEPT !.payload = partial]

\* the instance after the STAP-A arm returned an error: the units read so
\* far are in the local buffer only
StapAFailed(self, partial) == self

StoreOutput_DropFragments(self, out) == [self EXCEPT !.payload = out, !.fua_buffer = <<>>]

\* self.payload = payload.freeze() of the single NAL and STAP-A arms
StoreOutput(self, out) == [self EXCEPT !.payload = out]

Depacketize(self, pkt) ==
    IF IsTooShort(pkt) THEN [res |-> ErrShortPacket, self |-> self]
    ELSE LET b0 == At(pkt, 0)
             nalu_type == BitAnd(b0, NALU_TYPE_BITMASK)
             arm == NaluArm(nalu_type)
         IN  IF arm = "single"
             THEN [res |-> OkResult,
                   self |-> StoreOutput(self, NalPrefix(self.is_avc, Len(pkt)) \o pkt)]
             ELSE IF arm = "stapa"
             THEN LET r == StapALoop(pkt, self.is_avc, STAPA_HEADER_SIZE, <<>>)
                  IN  IF r.res = OkResult
                      THEN [res |-> OkResult, self |-> StoreOutput(self, r.payload)]
                      ELSE [res |-> r.res, self |-> StapAFailed(self, r.payload)]
             ELSE IF arm = "fua"
             THEN DepacketizeFua(self, pkt)
             ELSE [res |-> NaluTypeIsNotHandled(nalu_type), self |-> self]

(***************************************************************************)
(* H264PartitionHeadChecker::is_partition_head                             *)
(***************************************************************************)
IsFragmentType_FuaOnly(nalu_type) == nalu_type = FUA_NALU_TYPE

IsFragmentType(nalu_type) == nalu_type = FUA_NALU_TYPE \/ nalu_type = FUB_NALU_TYPE

is_partition_head(pkt) ==
    IF Len(pkt) < 2 THEN FALSE
    ELSE IF IsFragmentType(BitAnd(At(pkt, 0), NALU_TYPE_BITMASK))
         THEN BitAnd(At(pkt, 1), FU_START_BITMASK) # 0
         ELSE TRUE

(***************************************************************************)
(* Inputs.                                                                 *)
(***************************************************************************)
\* bytes of elementary streams: 0 and 1 build start codes; 101 is a NAL
\* header of type 5 with ref_idc 3, 9 one of type 9 (dropped)
StreamBytes == {0, 1, 9, 101}

Inputs == SeqsUpTo(StreamBytes, MaxLen)

\* streams for the scanner: zeros and ones build start codes of any length
ScanInputs == SeqsUpTo({0, 1, 101}, MaxLen)

\* single NAL units given to the payloader: headers of type 9, 12, 12 with
\* ref_idc 1, and 5 with ref_idc 3; the bytes after the header build no
\* start code
NalHeads == {9, 12, 44, 101}

NalUnits == {<<h>> \o b : h \in NalHeads, b \in SeqsUpTo({0, 101}, MaxLen - 1)}

\* Annex-B streams of one, two or three units, each after a 3- or 4-byte
\* start code; a unit holds no start code and does not end in a zero
Codes == {<<0, 0, 1>>, <<0, 0, 0, 1>>}

FramedUnits(n) ==
    {u \in {<<h>> \o b : h \in {9, 101}, b \in SeqsUpTo({0, 1}, n - 1)} :
        u[Len(u)] # 0
        /\ \A i \in 1..(Len(u) - 2) : ~(u[i] = 0 /\ u[i + 1] = 0 /\ u[i + 2] = 1)}

Framed(n) == {c \o u : c \in Codes, u \in FramedUnits(n)}

FramedStreams ==
    Framed(MaxNal)
    \cup {a \o b : a \in Framed(MaxNal), b \in Framed(MaxNal)}
    \cup {a \o b \o c : a \in Framed(MaxNal - 2), b \in Framed(MaxNal - 2), c \in Framed(MaxNal - 2)}

\* first bytes of transport payloads: types 0, 1, 5, 23, 24, 25..31, some
\* with ref_idc bits
HeadBytes == {0, 1, 101, 23, 24, 56, 25, 26, 27, 28, 124, 29, 125, 30, 31}

\* later bytes: 69 is an FU header with the End bit, 133 one with the Start bit
BodyBytes == {0, 2, 69, 133}

StapBytes == {0, 1, 2}

Packets ==
    SeqsUpTo(BodyBytes, 2)
    \cup {<<h>> \o b : h \in HeadBytes, b \in SeqsUpTo(BodyBytes, MaxPkt - 1)}
    \cup {<<24>> \o b : b \in SeqsUpTo(StapBytes, MaxStap)}

\* what the instance may have received before the packet under study
Preambles == {<<>>, <<<<124, 133, 7>>>>, <<<<101, 7, 8>>>>}

\* the packets of a scripted sender: FU-A start, middle and end fragments
\* of a unit of type 5, start and end fragments of a unit of type 1, a
\* single NAL unit, a STAP-A payload of one unit, a 2-byte FU-A payload,
\* an FU-B payload
ScriptPackets ==
    {<<124, 133, 7>>, <<124, 5, 8>>, <<124, 69, 9>>, <<92, 129, 10>>, <<92, 65, 11>>,
     <<101, 12, 13>>, <<24, 0, 1, 14>>, <<124, 69>>, <<29, 133, 15>>}

Scripts == SeqsUpTo(ScriptPackets, MaxScript)

\* the packets of the stream environment
FuaData == SeqsUpTo({7, 8}, 2)

StreamPackets ==
    {<<124, b1>> \o d : b1 \in {133, 5, 69}, d \in FuaData}
    \cup {<<101, 7, 8>>, <<24, 0, 1, 7>>, <<24, 0, 2, 7>>, <<24, 0, 0, 0>>, <<29, 133, 7>>}

(***************************************************************************)
(* Actions.                                                                *)
(***************************************************************************)
Fresh(avc) == [is_avc |-> avc, payload |-> <<>>, fua_buffer |-> <<>>]

Self == [is_avc |-> is_avc, payload |-> payload, fua_buffer |-> fua_buffer]

\* the caller runs payload(mtu, input) and sends the fragments in order
PayloadCall ==
    /\ pc = "ready"
    /\ LET r == Payload(mtu, input)
       IN  /\ pres' = r.kind
           /\ payloads' = IF r.kind = "Ok" THEN r.payloads ELSE <<>>
           /\ rx' = IF r.kind = "Ok" THEN r.payloads ELSE <<>>
    /\ pc' = "done"
    /\ UNCHANGED <<mtu, input, is_avc, payload, fua_buffer, packet, res, probe>>

\* the receiver hands the next transport payload to depacketize; a panic
\* ends the use of the instance
DepacketizeCall ==
    /\ rx # <<>>
    /\ res # Panic
    /\ LET r == Depacketize(Self, Head(rx))
       IN  /\ res' = r.res
           /\ is_avc' = r.self.is_avc
           /\ payload' = r.self.payload
           /\ fua_buffer' = r.self.fua_buffer
    /\ packet' = Head(rx)
    /\ rx' = Tail(rx)
    /\ UNCHANGED <<payloaderVars, probe>>

\* the receiver asks whether the next transport payload starts a partition
PartitionHeadCall ==
    /\ rx # <<>>
    /\ probe' = [fn |-> "is_partition_head", arg |-> Head(rx), from |-> 0,
                 ret |-> is_partition_head(Head(rx))]
    /\ UNCHANGED <<payloaderVars, depacketizerVars, rx>>

\* next_ind called on the stream from some index
NextIndCall(start) ==
    /\ start <= Len(input)
    /\ probe' = [fn |-> "next_ind", arg |-> input, from |-> start,
                 ret |-> next_ind(input, start)]
    /\ UNCHANGED <<payloaderVars, depacketizerVars, rx>>

\* a transport payload arrives from the network
Receive(p) ==
    /\ rx = <<>>
    /\ res # Panic
    /\ (fua_buffer # <<>> => Len(fua_buffer[1]) + Len(p) <= MaxAcc + FUA_HEADER_SIZE)
    /\ rx' = <<p>>
    /\ UNCHANGED <<payloaderVars, depacketizerVars, probe>>

\* no direct call of a helper yet
NoProbe == [fn |-> "None", arg |-> <<>>, from |-> 0, ret |-> <<>>]

InitDepacketizer ==
    /\ is_avc \in BOOLEAN
    /\ payload = <<>>
    /\ fua_buffer = <<>>
    /\ packet = <<>>
    /\ res = NoCall
    /\ probe = NoProbe

\* the pipeline: payload, in-order transport, depacketize
Init ==
    /\ mtu \in 0..MaxMtu
    /\ input \in Inputs
    /\ pc = "ready"
    /\ pres = "None"
    /\ payloads = <<>>
    /\ rx = <<>>
    /\ InitDepacketizer

Next == PayloadCall \/ DepacketizeCall

Spec == Init /\ [][Next]_vars

\* the payloader alone, on single NAL units and on framed streams
InitPayload ==
    /\ mtu \in 0..MaxMtu
    /\ input \in NalUnits \cup FramedStreams
    /\ pc = "ready"
    /\ pres = "None"
    /\ payloads = <<>>
    /\ rx = <<>>
    /\ InitDepacketizer
    /\ is_avc = FALSE

NextPayload == PayloadCall

SpecPayload == InitPayload /\ [][NextPayload]_vars

\* is_partition_head asked about any packet
InitHead ==
    /\ mtu = 0
    /\ input = <<>>
    /\ pc = "idle"
    /\ pres = "None"
    /\ payloads = <<>>
    /\ rx \in {<<p>> : p \in Packets}
    /\ InitDepacketizer

NextHead == PartitionHeadCall

SpecHead == InitHead /\ [][NextHead]_vars

\* one depacketizer fed the payloads of a scripted sender, in order
InitScript ==
    /\ mtu = 0
    /\ input = <<>>
    /\ pc = "idle"
    /\ pres = "None"
    /\ payloads \in Scripts
    /\ rx = payloads
    /\ InitDepacketizer

NextScript == DepacketizeCall

SpecScript == InitScript /\ [][NextScript]_vars

\* the scanner and the payloader on streams of zeros, ones and NAL bytes
InitScan ==
    /\ mtu \in 1..MaxMtu
    /\ input \in ScanInputs
    /\ pc = "ready"
    /\ pres = "None"
    /\ payloads = <<>>
    /\ rx = <<>>
    /\ InitDepacketizer
    /\ is_avc = FALSE

NextScan == (\E start \in 0..MaxLen : NextIndCall(start)) \/ PayloadCall

SpecScan == InitScan /\ [][NextScan]_vars

\* one depacketizer fed transport payloads one after the other
InitStream ==
    /\ mtu = 0
    /\ input = <<>>
    /\ pc = "idle"
    /\ pres = "None"
    /\ payloads = <<>>
    /\ rx = <<>>
    /\ InitDepacketizer

NextStream == (\E p \in StreamPackets : Receive(p)) \/ DepacketizeCall

SpecStream == InitStream /\ [][NextStream]_vars

\* one depacketizer, an optional earlier packet, then any packet
InitPacket ==
    /\ mtu = 0
    /\ input = <<>>
    /\ pc = "idle"
    /\ pres = "None"
    /\ payloads = <<>>
    /\ rx \in {q \o <<p>> : q \in Preambles, p \in Packets}
    /\ InitDepacketizer

NextPacket == DepacketizeCall

SpecPacket == InitPacket /\ [][NextPacket]_vars

(***************************************************************************)
(* Vocabulary of the properties.                                           *)
(***************************************************************************)
TypeOf(byte) == byte % 32

HasStartBit(frag) == (frag[2] \div 128) % 2 = 1

HasEndBit(frag) == (frag[2] \div 64) % 2 = 1

ContainsStartCode(buffer) ==
    \E i \in 1..(Len(buffer) - 2) :
        buffer[i] = 0 /\ buffer[i + 1] = 0 /\ buffer[i + 2] = 1

\* one NAL unit: not empty, no Annex-B start code inside
IsNalUnit(u) == Len(u) >= 1 /\ ~ContainsStartCode(u)

Be32(n) == <<(n \div 16777216) % 256, (n \div 65536) % 256, (n \div 256) % 256, n % 256>>

Prefix(avc, n) == IF avc THEN Be32(n) ELSE <<0, 0, 0, 1>>

\* the number of fragments of payloads the depacketizer has been given
Fed == Len(payloads) - Len(rx)

StartIndices == {i \in 1..Len(payloads) : HasStartBit(payloads[i])}

EndIndices == {i \in 1..Len(payloads) : HasEndBit(payloads[i])}

\* the input is one NAL unit that does not fit the mtu
NeedsFragmenting == pc = "done" /\ IsNalUnit(input) /\ Len(input) > mtu

\* ... and the emitter can fragment it: not a dropped type, room for FU data
CanFragment == NeedsFragmenting /\ mtu >= 3 /\ TypeOf(input[1]) \notin {9, 12}

(***************************************************************************)
(* C1: every fragment payload(mtu, input) returns is at most mtu bytes     *)
(* long, for every mtu and every input.                                    *)
(***************************************************************************)
C1_FragmentsFitMtu ==
    pc = "done" => \A i \in 1..Len(payloads) : Len(payloads[i]) <= mtu

C1_Witness ==
    /\ pc = "done"
    /\ Len(payloads) >= 3
    /\ \E i \in 1..Len(payloads) :
           Len(payloads[i]) = mtu /\ TypeOf(payloads[i][1]) = 28
    /\ \E i \in 1..Len(payloads) : Len(payloads[i]) < mtu

(***************************************************************************)
(* C3: the FU-A fragments of a NAL unit longer than the mtu carry the      *)
(* Start bit on the first fragment only and the End bit on the last        *)
(* fragment only.  As claimed (for every such unit and mtu) this fails: a  *)
(* unit of type 9 or 12, or an mtu below 3, yields no fragment at all.     *)
(***************************************************************************)
C3_Original ==
    NeedsFragmenting =>
        /\ StartIndices = {1}
        /\ EndIndices = {Len(payloads)}
        /\ StartIndices \cap EndIndices = {}

\* C3 as amended: for a unit of a type other than 9 and 12 and mtu >= 3
\* there are at least two fragments, all FU-A; exactly the first has the
\* Start bit, exactly the last has the End bit, none has both.
C3_StartEndBits ==
    CanFragment =>
        /\ Len(payloads) >= 2
        /\ \A i \in 1..Len(payloads) : TypeOf(payloads[i][1]) = 28
        /\ StartIndices = {1}
        /\ EndIndices = {Len(payloads)}
        /\ StartIndices \cap EndIndices = {}

C3_Witness ==
    /\ CanFragment
    /\ Len(payloads) >= 3
    /\ Len(payloads[1]) > Len(payloads[Len(payloads)])
    /\ ~HasStartBit(payloads[2]) /\ ~HasEndBit(payloads[2])

(***************************************************************************)
(* C10: payload(mtu, empty) and payload(0, b) return Ok with no fragment.  *)
(***************************************************************************)
C10_DegenerateInput ==
    (pc = "done" /\ (Len(input) = 0 \/ mtu = 0)) =>
        (pres = "Ok" /\ payloads = <<>>)

C10_Witness ==
    /\ pc = "done"
    /\ mtu = 0
    /\ Len(input) >= 3
    /\ TypeOf(input[1]) = 5
    /\ pres = "Ok"
    /\ payloads = <<>>

(***************************************************************************)
(* C2: fragmentation round trip.  The fragments of a NAL unit u longer     *)
(* than the mtu, fed in order to a fresh depacketizer, each return Ok;     *)
(* every one but the last leaves an empty output, and after the last the   *)
(* output is prefix + header + u[1:], the header carrying the ref_idc and  *)
(* type bits of u[0].  As claimed (for every such unit and mtu) this       *)
(* fails: a unit of type 9 or 12, or an mtu below 3, yields no fragment,   *)
(* and nothing is reconstructed.                                           *)
(***************************************************************************)
Reconstructed(avc, u) ==
    Prefix(avc, Len(u)) \o <<u[1] % 128>> \o SubSeq(u, 2, Len(u))

C2_Original ==
    NeedsFragmenting =>
        /\ (Fed >= 1 /\ rx # <<>>) => (res = OkResult /\ payload = <<>>)
        /\ rx = <<>> => (res = OkResult /\ payload = Reconstructed(is_avc, input))

\* C2 as amended: the same, for a unit of a type other than 9 and 12 and
\* mtu >= 3.
C2_FragmentRoundTrip ==
    CanFragment =>
        /\ Fed = 0 => rx # <<>>
        /\ (Fed >= 1 /\ rx # <<>>) => (res = OkResult /\ payload = <<>>)
        /\ rx = <<>> => (res = OkResult /\ payload = Reconstructed(is_avc, input))

C2_Witness ==
    /\ CanFragment
    /\ is_avc
    /\ Len(payloads) >= 3
    /\ rx = <<>>
    /\ Len(input) = 6
    /\ input[1] = 101
    /\ payload = <<0, 0, 0, 6, 101>> \o SubSeq(input, 2, 6)

(***************************************************************************)
(* C4: round trip without fragmentation.  A NAL unit u of type 1..23 with  *)
(* len(u) <= mtu comes back from payload as the one fragment u, and        *)
(* depacketizing it returns Ok with output prefix + u.  As claimed this    *)
(* fails: types 9 and 12 lie in 1..23 and are dropped by payload, and a    *)
(* fragment of one or two bytes is refused by depacketize (ShortPacket).   *)
(***************************************************************************)
FitsUnfragmented ==
    /\ pc = "done"
    /\ IsNalUnit(input)
    /\ TypeOf(input[1]) \in 1..23
    /\ Len(input) <= mtu

C4_Original ==
    FitsUnfragmented =>
        /\ payloads = <<input>>
        /\ rx = <<>> => (res = OkResult /\ payload = Prefix(is_avc, Len(input)) \o input)

\* C4 as amended: the same, for a unit of type 1..23 other than 9 and 12
\* that is at least 3 bytes long.
C4_SingleRoundTrip ==
    (FitsUnfragmented /\ TypeOf(input[1]) \notin {9, 12} /\ Len(input) >= 3) =>
        /\ payloads = <<input>>
        /\ rx = <<>> => (res = OkResult /\ payload = Prefix(is_avc, Len(input)) \o input)

C4_Witness ==
    /\ FitsUnfragmented
    /\ is_avc
    /\ Len(input) = mtu
    /\ Len(input) >= 4
    /\ input[1] = 101
    /\ rx = <<>>
    /\ packet = input
    /\ payload = <<0, 0, 0, Len(input)>> \o input

(***************************************************************************)
(* C5: depacketize returns Ok, ShortPacket, StapAUnitTooLarge or           *)
(* UnhandledNaluType for every transport payload and never crashes.  The   *)
(* STAP-A arm reads packet[curr_offset + 1] whenever curr_offset is below  *)
(* the length: one byte left after the last unit is an index out of range. *)
(***************************************************************************)
C5_NeverCrashes ==
    res.kind \in {"None", "Ok", "ErrShortPacket", "StapASizeLargerThanBuffer",
                  "NaluTypeIsNotHandled"}

(***************************************************************************)
(* C6: a STAP-A payload whose units {u16 length, bytes} exactly fill it    *)
(* returns Ok and the output is prefix + unit bytes of every unit, in      *)
(* payload order.                                                          *)
(***************************************************************************)
UnitLength(body) == body[1] * 256 + body[2]

\* body is a sequence of whole aggregation units
RECURSIVE ExactUnits(_)
ExactUnits(body) ==
    \/ body = <<>>
    \/ /\ Len(body) >= 2
       /\ UnitLength(body) <= Len(body) - 2
       /\ ExactUnits(SubSeq(body, 3 + UnitLength(body), Len(body)))

RECURSIVE NumUnits(_)
NumUnits(body) ==
    IF body = <<>> THEN 0
    ELSE 1 + NumUnits(SubSeq(body, 3 + UnitLength(body), Len(body)))

RECURSIVE UnitsOutput(_, _)
UnitsOutput(avc, body) ==
    IF body = <<>> THEN <<>>
    ELSE Prefix(avc, UnitLength(body))
         \o SubSeq(body, 3, 2 + UnitLength(body))
         \o UnitsOutput(avc, SubSeq(body, 3 + UnitLength(body), Len(body)))

IsStapA(pkt) == Len(pkt) >= 1 /\ TypeOf(pkt[1]) = 24

\* C6: whole units in, Ok and prefix + unit bytes of each unit out
C6_StapAUnpacking ==
    (IsStapA(packet) /\ Len(packet) >= 2 /\ ExactUnits(Tail(packet))) =>
        (res = OkResult /\ payload = UnitsOutput(is_avc, Tail(packet)))

C6_Witness ==
    /\ IsStapA(packet)
    /\ is_avc
    /\ ExactUnits(Tail(packet))
    /\ NumUnits(Tail(packet)) = 2
    /\ UnitLength(Tail(packet)) = 2
    /\ Len(packet) = 8
    /\ payload = <<0, 0, 0, 2, packet[4], packet[5], 0, 0, 0, 1, packet[8]>>

(***************************************************************************)
(* C7: when a STAP-A unit declares a length L above the number R of bytes  *)
(* left after its length field, depacketize fails with                     *)
(* StapAUnitTooLarge{L, R}, and the output keeps what it held before the   *)
(* call: no such unit is emitted.                                          *)
(***************************************************************************)
\* <<L, R>> of the first unit of body that is too large, <<>> if there is none
RECURSIVE FirstTooLarge(_)
FirstTooLarge(body) ==
    IF Len(body) < 2 THEN <<>>
    ELSE IF UnitLength(body) > Len(body) - 2
         THEN <<UnitLength(body), Len(body) - 2>>
         ELSE FirstTooLarge(SubSeq(body, 3 + UnitLength(body), Len(body)))

\* C7: the first unit that is too large decides the error; the output stays
C7_StapATooLarge ==
    [][(rx # <<>> /\ IsStapA(Head(rx)) /\ FirstTooLarge(Tail(Head(rx))) # <<>>) =>
           LET lr == FirstTooLarge(Tail(Head(rx)))
           IN  /\ res' = StapASizeLargerThanBuffer(lr[1], lr[2])
               /\ payload' = payload]_vars

C7_Witness ==
    /\ IsStapA(packet)
    /\ res.kind = "StapASizeLargerThanBuffer"
    /\ res.a = res.b + 1
    /\ res.b >= 1
    /\ UnitLength(Tail(packet)) >= 1
    /\ NumUnits(SubSeq(packet, 2, Len(packet) - res.b - 2)) >= 1
    /\ payload = <<0, 0, 0, 1, 101, 7, 8>>

(***************************************************************************)
(* C8: a payload of more than 2 bytes whose type is none of 1..24 and 28   *)
(* fails with UnhandledNaluType of that type; so does FU-B (29), whatever  *)
(* its Start bit.                                                          *)
(***************************************************************************)
C8_UnhandledType ==
    (Len(packet) > 2 /\ TypeOf(packet[1]) \notin (1..24) \cup {28}) =>
        res = NaluTypeIsNotHandled(TypeOf(packet[1]))

C8_Witness ==
    /\ Len(packet) > 2
    /\ TypeOf(packet[1]) = 29
    /\ HasStartBit(packet)
    /\ is_partition_head(packet)
    /\ res = NaluTypeIsNotHandled(29)

(***************************************************************************)
(* C9: the FU-A accumulator is absent after creation and after every       *)
(* successful FU-A call with the End bit; a successful FU-A call without   *)
(* the End bit leaves it present, holding what it held before followed by  *)
(* the len(payload) - 2 bytes after the FU header.  Nothing else empties   *)
(* or shortens it.                                                         *)
(***************************************************************************)
IsFuA(pkt) == Len(pkt) >= 1 /\ TypeOf(pkt[1]) = 28

IsPrefixOf(a, b) == Len(a) <= Len(b) /\ SubSeq(b, 1, Len(a)) = a

Accumulated == IF fua_buffer = <<>> THEN <<>> ELSE fua_buffer[1]

C9_FuaStep ==
    (rx # <<>> /\ IsFuA(Head(rx)) /\ res' = OkResult) =>
        IF HasEndBit(Head(rx))
        THEN fua_buffer' = <<>>
        ELSE /\ fua_buffer' # <<>>
             /\ Len(fua_buffer'[1]) = Len(Accumulated) + Len(Head(rx)) - 2
             /\ IsPrefixOf(Accumulated, fua_buffer'[1])
             /\ SubSeq(fua_buffer'[1], Len(Accumulated) + 1, Len(fua_buffer'[1]))
                    = SubSeq(Head(rx), 3, Len(Head(rx)))

C9_NoShrink ==
    \/ /\ IsPrefixOf(Accumulated, Accumulated')
       /\ (fua_buffer # <<>> => fua_buffer' # <<>>)
    \/ /\ rx # <<>>
       /\ IsFuA(Head(rx))
       /\ HasEndBit(Head(rx))
       /\ res' = OkResult

\* C9: absent at creation; every step obeys C9_FuaStep and C9_NoShrink
C9_AccumulatorLifecycle ==
    /\ (res = NoCall => fua_buffer = <<>>)
    /\ [][C9_FuaStep /\ C9_NoShrink]_vars

\* three FU-A calls in a row: two that accumulate, then the End fragment
C9_Witness ==
    /\ IsFuA(packet)
    /\ HasEndBit(packet)
    /\ res = OkResult
    /\ fua_buffer = <<>>
    /\ Len(packet) = 3
    /\ Len(payload) = 4 + 1 + 4
    /\ payload[9] = packet[3]

(***************************************************************************)
(* C11: a NAL unit of type 9 or 12 yields no fragment, for every mtu,      *)
(* whether the unit fits the mtu or would have to be fragmented.           *)
(***************************************************************************)
C11_DroppedTypes ==
    (pc = "done" /\ IsNalUnit(input) /\ TypeOf(input[1]) \in {9, 12}) =>
        (pres = "Ok" /\ payloads = <<>>)

C11_Witness ==
    /\ pc = "done"
    /\ IsNalUnit(input)
    /\ input[1] = 44
    /\ mtu >= 3
    /\ Len(input) > mtu
    /\ pres = "Ok"
    /\ payloads = <<>>

(***************************************************************************)
(* C12: is_partition_head(p) is false when p has fewer than 2 bytes; for a *)
(* p of type 28 or 29 it is true exactly when the Start bit of p[1] is     *)
(* set; for every other p of 2 bytes or more it is true.                   *)
(***************************************************************************)
C12_PartitionHead ==
    probe.fn = "is_partition_head" =>
        LET p == probe.arg
        IN  probe.ret = IF Len(p) < 2 THEN FALSE
                        ELSE IF TypeOf(p[1]) \in {28, 29} THEN HasStartBit(p)
                        ELSE TRUE

C12_Witness ==
    /\ probe.fn = "is_partition_head"
    /\ Len(probe.arg) >= 3
    /\ probe.arg[1] = 125
    /\ ~HasStartBit(probe.arg)
    /\ HasEndBit(probe.arg)
    /\ probe.ret = FALSE

(***************************************************************************)
(* The framing of an Annex-B stream, read off the bytes.                   *)
(***************************************************************************)
\* the index of the first 00 00 01 of s, or 0
FirstCode(s) ==
    LET hits == {j \in 1..(Len(s) - 2) : s[j] = 0 /\ s[j + 1] = 0 /\ s[j + 2] = 1}
    IN  IF hits = {} THEN 0 ELSE CHOOSE j \in hits : \A k \in hits : j <= k

\* the length of the start code s begins with, or 0
LeadingCode(s) ==
    IF Len(s) >= 3 /\ SubSeq(s, 1, 3) = <<0, 0, 1>> THEN 3
    ELSE IF Len(s) >= 4 /\ SubSeq(s, 1, 4) = <<0, 0, 0, 1>> THEN 4
    ELSE 0

\* the units of s read as start code, unit, start code, unit ...; a start
\* code is 3 bytes, or 4 when a zero precedes it; where s does not begin
\* with a start code the reading ends with an empty unit
RECURSIVE UnitsOf(_)
UnitsOf(s) ==
    IF s = <<>> THEN <<>>
    ELSE IF LeadingCode(s) = 0 THEN << <<>> >>
    ELSE LET rest == SubSeq(s, LeadingCode(s) + 1, Len(s))
             j == FirstCode(rest)
             cut == IF j = 0 THEN Len(rest) + 1
                    ELSE IF j > 1 /\ rest[j - 1] = 0 THEN j - 1
                    ELSE j
         IN  <<SubSeq(rest, 1, cut - 1)>> \o UnitsOf(SubSeq(rest, cut, Len(rest)))

\* s is n1..nk, each after a 3- or 4-byte start code, no ni empty or ending
\* in a zero (no ni holds 00 00 01 by construction)
IsFramed(s) ==
    /\ UnitsOf(s) # <<>>
    /\ \A i \in 1..Len(UnitsOf(s)) :
           UnitsOf(s)[i] # <<>> /\ UnitsOf(s)[i][Len(UnitsOf(s)[i])] # 0

RECURSIVE PayloadOfUnits(_, _)
PayloadOfUnits(m, units) ==
    IF units = <<>> THEN <<>>
    ELSE Payload(m, Head(units)).payloads \o PayloadOfUnits(m, Tail(units))

\* the data bytes of FU-A fragments, in order
RECURSIVE FuData(_)
FuData(frags) ==
    IF frags = <<>> THEN <<>>
    ELSE SubSeq(Head(frags), 3, Len(Head(frags))) \o FuData(Tail(frags))

(***************************************************************************)
(* C13: for an Annex-B input of units n1..nk, each after a 3- or 4-byte    *)
(* start code, none holding 00 00 01 or ending in a zero, payload returns  *)
(* the fragments of n1, then those of n2, ... as payload(mtu, ni) gives    *)
(* them.  An input without a start code is handled as one NAL unit: sent   *)
(* whole if it fits, else as FU-A fragments of its bytes after the header. *)
(***************************************************************************)
C13_StreamOrder ==
    pc = "done" =>
        /\ pres = "Ok"
        /\ IsFramed(input) => payloads = PayloadOfUnits(mtu, UnitsOf(input))
        /\ (IsNalUnit(input) /\ payloads # <<>>) =>
               IF Len(input) <= mtu
               THEN payloads = <<input>>
               ELSE /\ \A i \in 1..Len(payloads) : TypeOf(payloads[i][1]) = 28
                    /\ FuData(payloads) = Tail(input)

C13_Witness ==
    /\ pc = "done"
    /\ IsFramed(input)
    /\ LeadingCode(input) = 3
    /\ Len(UnitsOf(input)) = 2
    /\ mtu >= 3
    /\ Len(UnitsOf(input)[1]) > mtu
    /\ UnitsOf(input)[1][1] = 101
    /\ UnitsOf(input)[2][1] = 101
    /\ Len(UnitsOf(input)[2]) = 2
    /\ Len(payloads) >= 3
    /\ TypeOf(payloads[1][1]) = 28
    /\ payloads[Len(payloads)] = UnitsOf(input)[2]
    /\ Len(input) = 3 + Len(UnitsOf(input)[1]) + 4 + 2

(***************************************************************************)
(* C14: a depacketize call that returns an error (ErrShortPacket,          *)
(* StapASizeLargerThanBuffer, NaluTypeIsNotHandled) leaves payload,        *)
(* fua_buffer and is_avc as they were; a STAP-A payload that fails on a    *)
(* unit after the first leaves nothing of the earlier units in payload.    *)
(***************************************************************************)
IsError(r) == r.kind \in {"ErrShortPacket", "StapASizeLargerThanBuffer", "NaluTypeIsNotHandled"}

C14_ErrorsKeepState ==
    [][(rx # <<>> /\ IsError(res')) =>
           /\ payload' = payload
           /\ fua_buffer' = fua_buffer
           /\ is_avc' = is_avc]_vars

C14_Witness ==
    /\ IsStapA(packet)
    /\ res.kind = "StapASizeLargerThanBuffer"
    /\ UnitLength(Tail(packet)) = 2
    /\ NumUnits(SubSeq(packet, 2, Len(packet) - res.b - 2)) >= 1
    /\ fua_buffer = << <<7>> >>
    /\ payload = <<>>
    /\ rx = <<>>

(***************************************************************************)
(* The FU-A fragments of a history of transport payloads.                  *)
(***************************************************************************)
\* p is an FU-A payload the depacketizer accepts
IsFuaFragment(p) == IsFuA(p) /\ Len(p) > 2

\* the index of the last accepted FU-A payload with the End bit among the
\* first n - 1 payloads of h, or 0
PreviousEnd(h, n) ==
    LET ends == {i \in 1..(n - 1) : IsFuaFragment(h[i]) /\ HasEndBit(h[i])}
    IN  IF ends = {} THEN 0 ELSE CHOOSE i \in ends : \A k \in ends : k <= i

\* the data bytes (after the two header bytes) of the FU-A payloads among
\* h[i..n], in order
RECURSIVE FuDataBetween(_, _, _)
FuDataBetween(h, i, n) ==
    IF i > n THEN <<>>
    ELSE (IF IsFuaFragment(h[i]) THEN SubSeq(h[i], 3, Len(h[i])) ELSE <<>>)
         \o FuDataBetween(h, i + 1, n)

\* the unit announced by the End fragment e over the data bytes d
Reassembled(avc, e, d) ==
    Prefix(avc, Len(d) + 1) \o <<((e[1] \div 32) % 4) * 32 + (e[2] % 32)>> \o d

\* the payloads between the previous End and the last one fed are FU-A
\* fragments, single NAL units or STAP-A payloads of one exact unit
OnlyWholeUnitsBetween ==
    \A i \in (PreviousEnd(payloads, Fed) + 1)..Fed :
        \/ IsFuaFragment(payloads[i])
        \/ Len(payloads[i]) > 2 /\ TypeOf(payloads[i][1]) \in 1..23
        \/ IsStapA(payloads[i]) /\ Len(payloads[i]) > 2 /\ ExactUnits(Tail(payloads[i]))

(***************************************************************************)
(* C15: a successful Single-NAL or STAP-A call leaves the FU-A accumulator *)
(* as it was, also between the fragments of a unit; the End fragment that  *)
(* follows outputs the FU-A bytes only.                                    *)
(***************************************************************************)
C15_Step ==
    (rx # <<>> /\ TypeOf(Head(rx)[1]) \in 1..24 /\ res' = OkResult) =>
        fua_buffer' = fua_buffer

C15_EndAfterWholeUnits ==
    (Fed >= 1 /\ IsFuaFragment(packet) /\ HasEndBit(packet) /\ OnlyWholeUnitsBetween) =>
        payload = Reassembled(is_avc, packet,
                              FuDataBetween(payloads, PreviousEnd(payloads, Fed) + 1, Fed))

C15_AccumulatorUntouched == C15_EndAfterWholeUnits /\ [][C15_Step]_vars

C15_Witness ==
    /\ Fed = 4
    /\ payloads = <<<<124, 133, 7>>, <<101, 12, 13>>, <<24, 0, 1, 14>>, <<124, 69, 9>>>>
    /\ is_avc
    /\ res = OkResult
    /\ payload = <<0, 0, 0, 3, 101, 7, 9>>

(***************************************************************************)
(* C16: the depacketizer does not look at the Start bit and detects no     *)
(* gap.  The output of a call that sees the End bit is the prefix, the     *)
(* header byte, and the data bytes of every FU-A fragment fed since the    *)
(* previous End (or since creation), in arrival order: when the End of a   *)
(* unit X is lost, the output for the next unit Y holds the bytes of X     *)
(* before those of Y.                                                      *)
(***************************************************************************)
C16_NoGapDetection ==
    (Fed >= 1 /\ IsFuaFragment(packet) /\ HasEndBit(packet)) =>
        /\ res = OkResult
        /\ fua_buffer = <<>>
        /\ payload = Reassembled(is_avc, packet,
                                 FuDataBetween(payloads, PreviousEnd(payloads, Fed) + 1, Fed))

C16_Witness ==
    /\ Fed = 4
    /\ payloads = <<<<124, 133, 7>>, <<124, 5, 8>>, <<92, 129, 10>>, <<92, 65, 11>>>>
    /\ ~is_avc
    /\ res = OkResult
    /\ payload = <<0, 0, 0, 1, 65, 7, 8, 10, 11>>

(***************************************************************************)
(* C17: payload ends and returns Ok for every mtu and every input (mtu 1   *)
(* or 2, units of one byte, a start code at the end, start codes in a      *)
(* row), and takes no slice out of range.  A unit that does not fit and    *)
(* cannot be fragmented (mtu - 2 <= 0) contributes no fragment: with such  *)
(* an mtu every fragment is a whole unit of at most mtu bytes.             *)
(***************************************************************************)
C17_PayloadTotal ==
    pc = "done" =>
        /\ pres = "Ok"
        /\ (IsNalUnit(input) /\ Len(input) > mtu /\ mtu - 2 <= 0) => payloads = <<>>
        /\ mtu - 2 <= 0 =>
               \A i \in 1..Len(payloads) :
                   Len(payloads[i]) <= mtu /\ TypeOf(payloads[i][1]) # 28

C17_Witness ==
    /\ pc = "done"
    /\ pres = "Ok"
    /\ mtu = 2
    /\ input = <<0, 0, 1, 101, 101, 101>>
    /\ payloads = <<>>

(***************************************************************************)
(* C18: FU-A chunking.  For a NAL unit u with len(u) > mtu and mtu >= 3    *)
(* there are ceil((len(u) - 1) / (mtu - 2)) fragments; each begins with    *)
(* the indicator 28 | (u[0] & 0x60) and a header whose low 5 bits are      *)
(* u[0] & 0x1F; every chunk but the last has mtu - 2 bytes, none is empty, *)
(* and the chunks in order make up u[1:].  As claimed (for every such      *)
(* unit) this fails: a unit of type 9 or 12 yields no fragment.            *)
(***************************************************************************)
Chunking ==
    /\ Len(payloads) * (mtu - 2) >= Len(input) - 1
    /\ (Len(payloads) - 1) * (mtu - 2) < Len(input) - 1
    /\ \A i \in 1..Len(payloads) :
           /\ Len(payloads[i]) >= 3
           /\ payloads[i][1] = 28 + ((input[1] \div 32) % 4) * 32
           /\ payloads[i][2] % 32 = input[1] % 32
    /\ \A i \in 1..(Len(payloads) - 1) : Len(payloads[i]) = mtu
    /\ FuData(payloads) = Tail(input)

C18_Original == (NeedsFragmenting /\ mtu >= 3) => Chunking

\* C18 as amended: the same, for a unit of a type other than 9 and 12
C18_FuaChunking == CanFragment => Chunking

C18_Witness ==
    /\ CanFragment
    /\ input[1] = 101
    /\ Len(payloads) = 3
    /\ Len(payloads[3]) = 3
    /\ mtu = 4
    /\ payloads[2] = <<124, 5, input[4], input[5]>>
    /\ input[4] # input[5]

(***************************************************************************)
(* The records of a depacketizer output.                                   *)
(***************************************************************************)
BeValue(b) == b[1] * 16777216 + b[2] * 65536 + b[3] * 256 + b[4]

\* b is a concatenation of records: a 4-byte big-endian length, then that
\* many bytes
RECURSIVE AvccRecords(_)
AvccRecords(b) ==
    \/ b = <<>>
    \/ /\ Len(b) >= 4
       /\ BeValue(b) <= Len(b) - 4
       /\ AvccRecords(SubSeq(b, 5 + BeValue(b), Len(b)))

\* the lengths of the records of b
RECURSIVE AvccLengths(_)
AvccLengths(b) ==
    IF b = <<>> THEN <<>>
    ELSE <<BeValue(b)>> \o AvccLengths(SubSeq(b, 5 + BeValue(b), Len(b)))

\* b is a concatenation of records of the lengths lens, each after 00 00 00 01
RECURSIVE AnnexbRecords(_, _)
AnnexbRecords(b, lens) ==
    IF lens = <<>> THEN b = <<>>
    ELSE /\ Len(b) >= 4 + Head(lens)
         /\ SubSeq(b, 1, 4) = <<0, 0, 0, 1>>
         /\ AnnexbRecords(SubSeq(b, 5 + Head(lens), Len(b)), Tail(lens))

\* the unit lengths a STAP-A body declares
RECURSIVE DeclaredLengths(_)
DeclaredLengths(body) ==
    IF Len(body) < 2 THEN <<>>
    ELSE <<UnitLength(body)>> \o DeclaredLengths(SubSeq(body, 3 + UnitLength(body), Len(body)))

\* the record lengths the claim gives for the payload p, by its kind
ExpectedLengths(p, accumulated) ==
    IF IsStapA(p) THEN DeclaredLengths(Tail(p))
    ELSE IF IsFuA(p)
         THEN IF HasEndBit(p) THEN <<Len(accumulated) + Len(p) - 2 + 1>> ELSE <<>>
    ELSE <<Len(p)>>

(***************************************************************************)
(* C19: the output of every successful depacketize call is empty or a      *)
(* concatenation of records.  With is_avc each record is a 4-byte          *)
(* big-endian length and that many bytes: len(payload) for a single NAL    *)
(* unit, the declared length for each STAP-A unit, the accumulator length  *)
(* + 1 for a reassembled FU-A unit.  Without is_avc each record begins     *)
(* with 00 00 00 01.                                                       *)
(***************************************************************************)
C19_Step ==
    (rx # <<>> /\ res' = OkResult) =>
        IF is_avc
        THEN /\ AvccRecords(payload')
             /\ AvccLengths(payload') = ExpectedLengths(Head(rx), Accumulated)
        ELSE AnnexbRecords(payload', ExpectedLengths(Head(rx), Accumulated))

C19_OutputRecords == [][C19_Step]_vars

C19_Witness ==
    /\ is_avc
    /\ IsStapA(packet)
    /\ res = OkResult
    /\ fua_buffer # <<>>
    /\ AvccLengths(payload) = <<1, 2>>

(***************************************************************************)
(* C20: next_ind(buffer, from) returns (-1, -1) exactly when buffer[from..]*)
(* holds no run of 2 or more zeros directly followed by a 1.  Otherwise it *)
(* returns (p, l) for the earliest one: p >= from is the index of the      *)
(* first zero of the run, l is the run length + 1 >= 3, buffer[p..p+l-1)   *)
(* is all zero and buffer[p+l-1] is 1.  So the zeros directly before a     *)
(* start code belong to the start code, not to the unit before it, and the *)
(* bytes before the first start code of an input reach no fragment.        *)
(***************************************************************************)
\* the 0-based indices of the 1 bytes that end a start code inside b[f..]
CodeEnds(b, f) ==
    {e \in (f + 2)..(Len(b) - 1) : At(b, e) = 1 /\ At(b, e - 1) = 0 /\ At(b, e - 2) = 0}

C20_ScanResult ==
    probe.fn = "next_ind" =>
        LET b == probe.arg
            f == probe.from
            p == probe.ret[1]
            l == probe.ret[2]
        IN  /\ probe.ret = <<-1, -1>> <=> CodeEnds(b, f) = {}
            /\ CodeEnds(b, f) # {} =>
                   /\ p >= f
                   /\ l >= 3
                   /\ p + l - 1 \in CodeEnds(b, f)
                   /\ \A e \in CodeEnds(b, f) : p + l - 1 <= e
                   /\ \A k \in p..(p + l - 2) : At(b, k) = 0
                   /\ p = f \/ At(b, p - 1) # 0

\* bytes before the first start code are dropped; a fragment that is a
\* whole unit followed by a start code does not end in a zero
C20_StreamConsequences ==
    (pc = "done" /\ ContainsStartCode(input)) =>
        /\ payloads = Payload(mtu, SubSeq(input, FirstCode(input), Len(input))).payloads
        /\ mtu >= Len(input) =>
               \A i \in 1..(Len(payloads) - 1) : payloads[i][Len(payloads[i])] # 0

C20_NalScanner == C20_ScanResult /\ C20_StreamConsequences

C20_Witness ==
    /\ probe.fn = "next_ind"
    /\ probe.arg = <<101, 0, 0, 0, 1, 101>>
    /\ probe.from = 1
    /\ probe.ret = <<1, 4>>
    /\ pc = "done"
    /\ mtu = 4
    /\ payloads = <<<<101>>>>

====
